---- MODULE Spec2Model ----
(***************************************************************************)
(* Model of radoneye-reader.py: the polling orchestrator                   *)
(* (RadonEyeReaderApp.run), the per-device read (RadonEyeReader            *)
(* .read_sensor_data) and the MQTT publishing of a reading.                *)
(*                                                                         *)
(* Time is counted in ticks inside one read attempt only (elapsed,         *)
(* readElapsed); every timer of the code (bleak's connect timeout, the     *)
(* inner asyncio.wait_for on the future, the outer asyncio.wait_for of     *)
(* run) fires before time passes beyond its deadline.                      *)
(*                                                                         *)
(* The transport (bleak) and the bus client (paho) are collaborators:      *)
(* connect, start_notify, write_gatt_char and publish each either return   *)
(* or raise, disconnect is an atomic close, and an exception raised by     *)
(* the notification callback stays inside the transport.  `trace`,         *)
(* `visited` and `outcomes` are history variables: they record what run    *)
(* did (stderr and stdout lines, hook calls, delays, MQTT messages) for    *)
(* the device being processed and for the sweep.                           *)
(*                                                                         *)
(* Spec is the reader; LiveSpec is the reader under the scheduling of the  *)
(* event loop.  Three smaller specifications take one piece on its own,    *)
(* over variables that the reader leaves alone: DumperSpec is              *)
(* radoneye-dumper.py (dump and its history decoder), ParserSpec applies   *)
(* parse_sensor_data to every value of the radon fields, PublisherSpec     *)
(* applies publish_discovery_event to every configuration.                 *)
(***************************************************************************)
EXTENDS Integers, Sequences, FiniteSets, TLC

\* ------------------------------------------------------------------ bounds
MaxPages == 2          \* a history page has page_count, page_no in 1..MaxPages
MaxNotifications == 2  \* history pages decoded in one dump
MaxDumps == 2          \* calls of dump() on one RadonEyeDumper
MaxDecodes == 2        \* calls of parse_sensor_data on one packet
MaxExpireAfter == 2    \* --expire-after is absent or drawn from 0..MaxExpireAfter
NumDevices == 2      \* number of configured addresses
MaxAttempts == 3     \* --attempts is drawn from 0..MaxAttempts
MaxTimeout == 2      \* --connect-timeout, --read-timeout are drawn from 1..MaxTimeout

\* bleak's own connect timeout (10.0 s), in ticks of 5 s: what BleakClient uses
\* when it is given no keyword argument named "timeout"
BleakDefaultTimeout == 2

VARIABLES
    args,         \* the parsed command line (self.args), fixed after Init
    pc,           \* where run() is
    idx,          \* position of the for loop in args.addresses (0: before the first)
    attempt,      \* run's local `attempt`
    data,         \* run's local `data` (NoData for None)
    elapsed,      \* ticks since the current read attempt started (0 outside a read)
    readElapsed,  \* ticks since the inner wait_for(future, read_timeout) started
    conn,         \* the BleakClient of the latest read: "none" (never connected), "open", "closed"
    future,       \* the future of the current read: "none", "pending", "done", "cancelled"
    trace,        \* what run did for the current device in this sweep (stderr, stdout, hook, sleeps, MQTT)
    visited,      \* addresses for which a read attempt was started in this sweep, in order
    outcomes,     \* how each finished device of this sweep ended, in order
    mqttLoop,     \* the MQTT client's network loop is running
    gatt,         \* the GATT calls that have returned on the open connection, in order
    undecoded,    \* the read under way got a notification that could not be decoded while its future was pending
    lateError,    \* the read under way got a notification after its future was resolved, and the callback raised
    dumper,       \* radoneye-dumper.py: the fields of the RadonEyeDumper object
    dumpPc,       \* radoneye-dumper.py: where dump() is: "new", "loop", "closed"
    dumpNo,       \* radoneye-dumper.py: how many times dump() was called
    delivery,     \* radoneye-dumper.py: the latest notification and what its callback did
    pages,        \* radoneye-dumper.py: the history pages decoded in this dump, in order
    packet,       \* the parser on its own: the current packet given to parse_sensor_data
    readings,     \* the parser on its own: what each call of parse_sensor_data on the packet returned
    pubArgs,      \* discovery on its own: --force-update and --expire-after
    pubData,      \* discovery on its own: the reading given to publish_discovery_event
    pubPc,        \* discovery on its own: where publish_discovery_event is: "loop", "returned", "raised"
    messages      \* discovery on its own: the configuration messages published, in order

\* the state of the dumper tool
dumperVars == <<dumper, dumpPc, dumpNo, delivery, pages>>

\* the state of the parser taken on its own
parserVars == <<packet, readings>>

\* the state of publish_discovery_event taken on its own
publisherVars == <<pubArgs, pubData, pubPc, messages>>

\* what a run of the reader leaves alone
toolVars == <<dumperVars, parserVars, publisherVars>>

\* the state of the reader
readerVars == <<args, pc, idx, attempt, data, elapsed, readElapsed, conn, future, trace, visited, outcomes, mqttLoop,
                gatt, undecoded, lateError>>

\* what the notification callback and the GATT calls of a read leave behind
callVars == <<gatt, undecoded, lateError>>

vars == <<args, pc, idx, attempt, data, elapsed, readElapsed, conn, future, trace, visited, outcomes, mqttLoop,
          gatt, undecoded, lateError,
          dumper, dumpPc, dumpNo, delivery, pages, packet, readings,
          pubArgs, pubData, pubPc, messages>>

\* what the dumper, the parser and publish_discovery_event leave alone
outsideDumper == <<readerVars, parserVars, publisherVars>>
outsideParser == <<readerVars, dumperVars, publisherVars>>
outsidePublisher == <<readerVars, dumperVars, parserVars>>

NoData == [address |-> 0]

\* ------------------------------------------------------- program constants
\* the largest value of unpack("<H", ...): an unsigned 16-bit short
MaxShort == 65535

\* RadonEyeDumper.COMMAND_CURRENT, COMMAND_HISTORY
COMMAND_CURRENT == 64
COMMAND_HISTORY == 65

\* decode_history_data: `if page_count == page_no`
IsLastPage(page_count, page_no) == page_count = page_no

\* no notification was delivered to the dumper yet
NoDelivery == [kind |-> "none"]

\* args.addresses: the configured device addresses, in the configured order
Addresses == [i \in 1..NumDevices |-> i]

\* the keys of the dict decode_sensor_data returns, in insertion order
Fields == <<"timestamp", "vendor", "device", "address",
            "serial", "model", "version",
            "latest_bq_m3", "latest_pci_l", "day_avg_bq_m3", "day_avg_pci_l",
            "month_avg_bq_m3", "month_avg_pci_l", "peak_bq_m3", "peak_pci_l",
            "counts_current", "counts_previous", "counts_str",
            "uptime_minutes", "uptime_str">>

\* DISCOVERY_ATTRIBUTES: the "name" of each monitored attribute
DiscoveryAttributes == <<"Latest", "DayAvg", "MonthAvg", "Peak">>

\* the exception types a read can end with
BleakError == "BleakError"
TimeoutError == "TimeoutError"
\* the exception types that derive from BaseException, not from Exception
BaseExceptions == {"CancelledError", "KeyboardInterrupt", "SystemExit"}

ReadStates == {"connecting", "subscribing", "writing", "awaiting"}

\* ------------------------------------------------------------------ helpers
Range(s) == {s[i] : i \in 1..Len(s)}

Count(s, ev) == Cardinality({i \in 1..Len(s) : s[i].ev = ev})

\* one entry of the trace: event kind, device address, a number (the attempt)
\* and a string (the cause, the field, the attribute, the delay)
Event(ev, n, s) == [ev |-> ev, a |-> Addresses[idx], n |-> n, s |-> s]

\* the keyword arguments read_sensor_data passes to BleakClient
ClientKwargs == [timout |-> args.connect_timeout]

\* the connect timeout BleakClient ends up with
TransportConnectTimeout ==
    IF "timeout" \in DOMAIN ClientKwargs THEN ClientKwargs["timeout"]
    ELSE BleakDefaultTimeout

\* the timeout of run's asyncio.wait_for around read_sensor_data
OverallTimeout == args.connect_timeout + args.read_timeout

\* mutant: the loop does not stop at attempt = 0, the mark of a success
LoopCondition_NoSuccessTest == attempt <= args.attempts

\* mutant: the last attempt is left out
LoopCondition_OffByOne == attempt > 0 /\ attempt < args.attempts

\* the condition of run's while loop
LoopCondition == attempt > 0 /\ attempt <= args.attempts

\* handle_sensor_error: attempts remain, so wait (or restart bluetooth)
AttemptsRemain == attempt < args.attempts

\* mutant: bluetooth is restarted after every failed attempt
RestartBeforeLast_Always == args.restart_bluetooth

\* handle_sensor_error: restart bluetooth before the last attempt if enabled
RestartBeforeLast == attempt = args.attempts - 1 /\ args.restart_bluetooth

\* mutant: only the transport's own error type is caught
ExceptException_OnlyBleak(cause) == cause = BleakError

\* `except Exception` catches every exception type but the BaseException ones
ExceptException(cause) == cause \notin BaseExceptions

\* mutant: the attempt counter is not reset after a successful read
AttemptAfterSuccess_NotReset == attempt

\* run: `attempt = 0` after a successful read
AttemptAfterSuccess == 0

\* mutant: leaving the block does not disconnect
AsyncWithExit_Leak(c) == c

\* the connection after leaving `async with BleakClient(...)`: __aexit__
\* disconnects on every exit of the block (return, exception, cancellation);
\* a block that was never entered (connect failed) has nothing to release
AsyncWithExit(c) == IF c = "open" THEN "closed" ELSE c

\* mutant: only the wait for the notification is under run's timeout
WaitForCovers_OnlyWait == {"awaiting"}

\* the part of a read that run's wait_for wraps: all of read_sensor_data
WaitForCovers == ReadStates

\* mutant: the sweep stops at a device that gave no reading
ForLoopHasNext_StopOnFailure == idx < Len(Addresses) /\ (idx = 0 \/ data # NoData)

\* the for loop of run goes on while addresses are left, whatever happened
\* to the devices before
ForLoopHasNext == idx < Len(Addresses)

\* mutant: the state messages follow the discovery messages at once
AfterDiscovery_NoDelay == "publish"

\* run: after publish_discovery_event returned, sleep the discovery delay
AfterDiscovery == "discovery_sleep"

\* an entry of the trace for something done with the reading held in data:
\* print_sensor_data(data), publish_discovery_event(data) and
\* publish_device_event(data) take the address from the reading
DataEvent(ev, n, s) == [ev |-> ev, a |-> data.address, n |-> n, s |-> s]

\* run: `data = None` at the start of each device
DataAtStart_Kept == data

\* run: `data = None` at the start of each device
DataAtStart == NoData

\* run: `if self.args.daemon` after the for loop: sleep and sweep again
DaemonMode_Inverted == ~args.daemon

\* run: `if self.args.daemon` after the for loop: sleep and sweep again
DaemonMode == args.daemon

\* read_sensor_data: the call made at each position of the async with
\* block: start_notify first, write_gatt_char second
CallAt_Swapped(p) ==
    IF p = "subscribing" THEN "write_gatt_char" ELSE "start_notify"

\* read_sensor_data: the call made at each position of the async with
\* block: start_notify first, write_gatt_char second
CallAt(p) ==
    IF p = "subscribing" THEN "start_notify" ELSE "write_gatt_char"

\* run: after handle_discovery_event_error the next statement is the
\* `if` that publishes the device event (the two publishes have a try each)
AfterDiscoveryError_NextDevice == "sweep"

\* run: after handle_discovery_event_error the next statement is the
\* `if` that publishes the device event (the two publishes have a try each)
AfterDiscoveryError == "publish"

\* how the current device ended (read off its trace)
Outcome ==
    IF data = NoData
    THEN IF Count(trace, "attempt") = 0 THEN "skipped" ELSE "exhausted"
    ELSE "read"

\* ------------------------------------------------------------------- codec
\* to_pci_l, in hundredths of pCi/L: round(value_bq_m3 / 37, 2).  The
\* quotient is never half-way between two hundredths (37 is odd), so
\* rounding half up and Python's rounding agree.
to_pci_l_Truncated(value_bq_m3) == (100 * value_bq_m3) \div 37

\* to_pci_l, in hundredths of pCi/L: round(value_bq_m3 / 37, 2).  The
\* quotient is never half-way between two hundredths (37 is odd), so
\* rounding half up and Python's rounding agree.
to_pci_l(value_bq_m3) == (200 * value_bq_m3 + 37) \div 74

\* read_short: unpack("<H", data[start : start + 2]); Python offsets count
\* from 0, sequences from 1
read_short(bytes, start) == bytes[start + 1] + 256 * bytes[start + 2]

\* read_str: data[start : start + length].decode(), as the sequence of the
\* character codes
read_str(bytes, start, length) == SubSeq(bytes, start + 1, start + length)

\* the bytes of the text fields (Python offsets 2..14 and 16..27) that the
\* packet holds are ASCII, so that bytes.decode() returns
IsText(bytes) ==
    \A i \in (3..15) \cup (17..28) : i <= Len(bytes) => bytes[i] < 128

\* parse_sensor_data / decode_current_data: the reading held by a current
\* packet; a packet too short for one of the shorts raises struct.error, a
\* text field that is not UTF-8 raises UnicodeDecodeError
parse_sensor_data(bytes) ==
    IF ~IsText(bytes) THEN [raised |-> "UnicodeDecodeError"]
    ELSE IF Len(bytes) < 53 THEN [raised |-> "struct.error"]
    ELSE
    LET uptime_minutes == read_short(bytes, 43) IN
    [raised |-> "",
     serial |-> read_str(bytes, 8, 3) \o read_str(bytes, 2, 6) \o read_str(bytes, 11, 4),
     model |-> read_str(bytes, 16, 6),
     version |-> read_str(bytes, 22, 6),
     latest_bq_m3 |-> read_short(bytes, 33),
     latest_pci_l |-> to_pci_l(read_short(bytes, 33)),
     day_avg_bq_m3 |-> read_short(bytes, 35),
     day_avg_pci_l |-> to_pci_l(read_short(bytes, 35)),
     month_avg_bq_m3 |-> read_short(bytes, 37),
     month_avg_pci_l |-> to_pci_l(read_short(bytes, 37)),
     peak_bq_m3 |-> read_short(bytes, 51),
     peak_pci_l |-> to_pci_l(read_short(bytes, 51)),
     counts_current |-> read_short(bytes, 39),
     counts_previous |-> read_short(bytes, 41),
     counts_str |-> <<read_short(bytes, 39), "/", read_short(bytes, 41)>>,
     uptime_minutes |-> uptime_minutes,
     uptime_str |-> <<uptime_minutes \div (60 * 24), "d",
                      (uptime_minutes % (60 * 24)) \div 60, ":",
                      uptime_minutes % 60>>]

\* decode_history_data(self, data): what the call leaves behind.  The four
\* header bytes are popped off the bytearray it was given (IndexError when
\* it runs empty), the rest is unpacked as shorts (struct.error when a byte
\* is left over), a wrong command or value count is printed, and the last
\* page sets self.history_done.
decode_history_data(self, bytes) ==
    IF Len(bytes) < 4
    THEN [raised |-> "IndexError", data |-> <<>>, self |-> self,
          printed |-> 0, decoded |-> <<>>]
    ELSE
    LET command == bytes[1]
        page_count == bytes[2]
        page_no == bytes[3]
        value_count == bytes[4]
        rest == SubSeq(bytes, 5, Len(bytes))
        values_bq_m3 == [i \in 1..(Len(rest) \div 2) |-> read_short(rest, 2 * i - 2)]
    IN  IF Len(rest) % 2 = 1
        THEN [raised |-> "struct.error", data |-> rest, self |-> self,
              printed |-> 0, decoded |-> <<>>]
        ELSE [raised |-> "",
              data |-> rest,
              self |-> IF IsLastPage(page_count, page_no)
                       THEN [self EXCEPT !.history_done = TRUE]
                       ELSE self,
              printed |-> (IF command # COMMAND_HISTORY THEN 1 ELSE 0)
                          + (IF Len(values_bq_m3) # value_count THEN 1 ELSE 0),
              decoded |-> <<[command |-> command,
                             page_count |-> page_count,
                             page_no |-> page_no,
                             value_count |-> value_count,
                             values_bq_m3 |-> values_bq_m3,
                             values_pci_l |-> [i \in 1..Len(values_bq_m3) |->
                                                 to_pci_l(values_bq_m3[i])]]>>]

\* ---------------------------------------------------------------------- Init
\* no dumper
DumperNotStarted ==
    /\ dumper = [timeout |-> 0]
    /\ dumpPc = "none"
    /\ dumpNo = 0
    /\ delivery = NoDelivery
    /\ pages = <<>>

\* no parser taken on its own
ParserNotStarted ==
    /\ packet = <<>>
    /\ readings = <<>>

\* no publish_discovery_event taken on its own
PublisherNotStarted ==
    /\ pubArgs = [force_update |-> FALSE, expire_after |-> <<>>]
    /\ pubData = NoData
    /\ pubPc = "none"
    /\ messages = <<>>

\* the reader process has no dumper, and its parser and publisher are part
\* of the run
ToolNotStarted ==
    /\ DumperNotStarted
    /\ ParserNotStarted
    /\ PublisherNotStarted

Init ==
    /\ args \in [attempts : 0..MaxAttempts,
                 connect_timeout : 1..MaxTimeout,
                 read_timeout : 1..MaxTimeout,
                 daemon : BOOLEAN,
                 mqtt : BOOLEAN,
                 discovery : BOOLEAN,
                 restart_bluetooth : BOOLEAN]
    /\ pc = "start"
    /\ idx = 0
    /\ attempt = 0
    /\ data = NoData
    /\ elapsed = 0
    /\ readElapsed = 0
    /\ conn = "none"
    /\ future = "none"
    /\ trace = <<>>
    /\ visited = <<>>
    /\ outcomes = <<>>
    /\ mqttLoop = FALSE
    /\ gatt = <<>>
    /\ undecoded = FALSE
    /\ lateError = FALSE
    /\ ToolNotStarted

\* ------------------------------------------------------------------- actions
\* run: mqtt_init() when --mqtt, then enter `while True`
MqttInit ==
    /\ pc = "start"
    /\ mqttLoop' = args.mqtt
    /\ pc' = "sweep"
    /\ UNCHANGED <<toolVars, callVars, args, idx, attempt, data, elapsed, readElapsed, conn,
                   future, trace, visited, outcomes>>

\* run: `for address in self.args.addresses`, next address: a new reader,
\* data = None, attempt = 1
NextDevice ==
    /\ pc = "sweep"
    /\ ForLoopHasNext
    /\ idx' = idx + 1
    /\ data' = DataAtStart
    /\ attempt' = 1
    /\ trace' = <<>>
    /\ outcomes' = IF idx = 0 THEN outcomes ELSE Append(outcomes, Outcome)
    /\ pc' = "attempt"
    /\ UNCHANGED <<toolVars, callVars, args, elapsed, readElapsed, conn, future, visited,
                   mqttLoop>>

\* run: the for loop is over: sleep the interval (--daemon) or break and
\* stop the MQTT loop
SweepEnd ==
    /\ pc = "sweep"
    /\ ~ForLoopHasNext
    /\ IF DaemonMode
       THEN pc' = "interval_sleep" /\ UNCHANGED mqttLoop
       ELSE pc' = "done" /\ mqttLoop' = FALSE
    /\ outcomes' = Append(outcomes, Outcome)
    /\ UNCHANGED <<toolVars, callVars, args, idx, attempt, data, elapsed, readElapsed, conn,
                   future, trace, visited>>

\* run: asyncio.sleep(interval) returns, the next sweep starts
IntervalSleepDone ==
    /\ pc = "interval_sleep"
    /\ pc' = "sweep"
    /\ idx' = 0
    /\ visited' = <<>>
    /\ outcomes' = <<>>
    /\ trace' = <<>>
    /\ UNCHANGED <<toolVars, callVars, args, attempt, data, elapsed, readElapsed, conn, future, mqttLoop>>

\* run: the while condition holds: read_sensor_data() starts under
\* wait_for; it creates the future and enters BleakClient.__aenter__
StartAttempt ==
    /\ pc = "attempt"
    /\ LoopCondition
    /\ pc' = "connecting"
    /\ elapsed' = 0
    /\ readElapsed' = 0
    /\ future' = "pending"
    /\ trace' = Append(trace, Event("attempt", attempt, ""))
    /\ visited' = IF attempt = 1 THEN Append(visited, Addresses[idx]) ELSE visited
    /\ conn' = "none"
    /\ gatt' = <<>>
    /\ undecoded' = FALSE
    /\ lateError' = FALSE
    /\ UNCHANGED <<toolVars, args, idx, attempt, data, outcomes, mqttLoop>>

\* run: an exception leaves read_sensor_data (the async with block has been
\* left): `except Exception` runs handle_sensor_error, which logs and, when
\* attempts remain, restarts bluetooth and starts the delay
Raise(cause) ==
    /\ conn' = AsyncWithExit(conn)
    /\ future' = IF future = "pending" THEN "cancelled" ELSE future
    /\ IF ExceptException(cause)
       THEN LET logged == Append(trace, Event("error", attempt, cause)) IN
            /\ IF AttemptsRemain
               THEN IF RestartBeforeLast
                    THEN /\ trace' = Append(logged, Event("hook", attempt, ""))
                         /\ pc' = "sleep_restart"
                         /\ UNCHANGED attempt
                    ELSE /\ trace' = logged
                         /\ pc' = "sleep_reconnect"
                         /\ UNCHANGED attempt
               ELSE /\ trace' = logged
                    /\ attempt' = attempt + 1
                    /\ pc' = "attempt"
       ELSE /\ pc' = "crashed"
            /\ UNCHANGED <<trace, attempt>>
    /\ elapsed' = 0
    /\ readElapsed' = 0
    /\ gatt' = <<>>
    /\ undecoded' = FALSE
    /\ lateError' = FALSE
    /\ UNCHANGED <<toolVars, args, idx, data, visited, outcomes, mqttLoop>>

\* handle_sensor_error: the delay is over; run: attempt = attempt + 1
SleepDone ==
    /\ pc \in {"sleep_restart", "sleep_reconnect"}
    /\ trace' = Append(trace, Event("slept", attempt,
                    IF pc = "sleep_restart" THEN "restart_bluetooth_delay"
                    ELSE "reconnect_delay"))
    /\ attempt' = attempt + 1
    /\ pc' = "attempt"
    /\ UNCHANGED <<toolVars, callVars, args, idx, data, elapsed, readElapsed, conn, future, visited, outcomes, mqttLoop>>

\* BleakClient.__aenter__: connect() succeeds
ConnectOk ==
    /\ pc = "connecting"
    /\ conn' = "open"
    /\ pc' = "subscribing"
    /\ UNCHANGED <<toolVars, callVars, args, idx, attempt, data, elapsed, readElapsed, future, trace, visited, outcomes, mqttLoop>>

\* BleakClient.__aenter__: connect() raises
ConnectFail ==
    /\ pc = "connecting"
    /\ Raise(BleakError)

\* BleakClient.__aenter__: connect() runs into the client's connect timeout
ConnectTimeout ==
    /\ pc = "connecting"
    /\ elapsed >= TransportConnectTimeout
    /\ Raise(TimeoutError)

\* client.start_notify(UUID_CURRENT, callback) returns
SubscribeOk ==
    /\ pc = "subscribing"
    /\ pc' = "writing"
    /\ gatt' = Append(gatt, CallAt(pc))
    /\ UNCHANGED <<toolVars, undecoded, lateError, args, idx, attempt, data, elapsed, readElapsed, conn,
                   future, trace, visited, outcomes, mqttLoop>>

\* client.start_notify raises
SubscribeFail ==
    /\ pc = "subscribing"
    /\ Raise(BleakError)

\* client.write_gatt_char(UUID_COMMAND, [COMMAND_CURRENT]) returns; the
\* inner wait_for(future, read_timeout) starts
WriteOk ==
    /\ pc = "writing"
    /\ pc' = "awaiting"
    /\ readElapsed' = 0
    /\ gatt' = Append(gatt, CallAt(pc))
    /\ UNCHANGED <<toolVars, undecoded, lateError, args, idx, attempt, data, elapsed, conn, future, trace, visited, outcomes, mqttLoop>>

\* client.write_gatt_char raises
WriteFail ==
    /\ pc = "writing"
    /\ Raise(BleakError)

\* the transport delivers a notification to callback(sender, data):
\* decode_sensor_data raises on a payload it cannot decode, and
\* future.set_result raises on a future that is already resolved; an
\* exception of the callback stays in the transport's dispatcher and
\* leaves the future as it is
Notify(decodable) ==
    /\ pc \in {"writing", "awaiting"}
    /\ future' = IF decodable /\ future = "pending" THEN "done" ELSE future
    /\ undecoded' = (undecoded \/ (~decodable /\ future = "pending"))
    /\ lateError' = (lateError \/ future # "pending")
    /\ UNCHANGED <<toolVars, gatt, args, pc, idx, attempt, data, elapsed, readElapsed, conn,
                   trace, visited, outcomes, mqttLoop>>

\* the inner wait_for returns the future's result, the async with block is
\* left and run gets the reading: data = ..., attempt = 0
ReadComplete ==
    /\ pc = "awaiting"
    /\ future = "done"
    /\ conn' = AsyncWithExit(conn)
    /\ data' = [address |-> Addresses[idx]]
    /\ attempt' = AttemptAfterSuccess
    /\ trace' = Append(trace, Event("ok", attempt, ""))
    /\ pc' = "attempt"
    /\ elapsed' = 0
    /\ readElapsed' = 0
    /\ gatt' = <<>>
    /\ undecoded' = FALSE
    /\ lateError' = FALSE
    /\ UNCHANGED <<toolVars, args, idx, future, visited, outcomes, mqttLoop>>

\* the inner wait_for(future, timeout=read_timeout) times out
ReadTimeout ==
    /\ pc = "awaiting"
    /\ future = "pending"
    /\ readElapsed >= args.read_timeout
    /\ Raise(TimeoutError)

\* run's wait_for(read_sensor_data(), connect_timeout + read_timeout) times
\* out: the read is cancelled wherever it is and TimeoutError is raised
OverallTimeoutFires ==
    /\ pc \in WaitForCovers
    /\ elapsed >= OverallTimeout
    /\ Raise(TimeoutError)

\* time passes during a read, as long as no timer is due and the read is
\* suspended
Tick ==
    /\ pc \in ReadStates
    /\ pc \in WaitForCovers => elapsed < OverallTimeout
    /\ pc = "connecting" => elapsed < TransportConnectTimeout
    /\ pc = "awaiting" => (future = "pending" /\ readElapsed < args.read_timeout)
    /\ elapsed' = elapsed + 1
    /\ readElapsed' = IF pc = "awaiting" THEN readElapsed + 1 ELSE readElapsed
    /\ UNCHANGED <<toolVars, callVars, args, pc, idx, attempt, data, conn, future,
                   trace, visited, outcomes, mqttLoop>>

\* the messages published by a loop over `names` whose failAt-th publish
\* raises (0: none raises): the loop is left at the exception
Published(ev, names, failAt) ==
    [i \in 1..(IF failAt = 0 THEN Len(names) ELSE failAt - 1) |->
        DataEvent(ev, i, names[i])]

\* where a loop of publishes over `names` is made to fail: nowhere (0), at
\* the first, the second or the last publish
FailPoints(names) == {0, 1, 2, Len(names)}

\* run: the while loop is over (the reader is dropped);
\* print_sensor_data(data) if data is not None
LoopExit ==
    /\ pc = "attempt"
    /\ ~LoopCondition
    /\ trace' = IF data # NoData THEN Append(trace, DataEvent("print", 0, "")) ELSE trace
    /\ pc' = IF data # NoData /\ args.mqtt /\ args.discovery THEN "discovery"
             ELSE IF data # NoData /\ args.mqtt THEN "publish"
             ELSE "sweep"
    /\ future' = "none"
    /\ conn' = "none"
    /\ gatt' = <<>>
    /\ undecoded' = FALSE
    /\ lateError' = FALSE
    /\ UNCHANGED <<toolVars, args, idx, attempt, data, elapsed, readElapsed, visited,
                   outcomes, mqttLoop>>

\* run: publish_discovery_event(data), one publish per attribute, then the
\* discovery delay starts; an exception is logged by
\* handle_discovery_event_error and skips the delay
PublishDiscovery(failAt) ==
    /\ pc = "discovery"
    /\ LET sent == trace \o Published("discovery", DiscoveryAttributes, failAt) IN
       IF failAt = 0
       THEN /\ trace' = sent
            /\ pc' = AfterDiscovery
       ELSE IF ExceptException("PublishError")
            THEN /\ trace' = Append(sent, Event("discovery_error", 0, "PublishError"))
                 /\ pc' = AfterDiscoveryError
            ELSE /\ trace' = sent
                 /\ pc' = "crashed"
    /\ UNCHANGED <<toolVars, callVars, args, idx, attempt, data, elapsed, readElapsed, conn,
                   future, visited, outcomes, mqttLoop>>

\* run: asyncio.sleep(discovery_delay) returns
DiscoverySleepDone ==
    /\ pc = "discovery_sleep"
    /\ trace' = Append(trace, Event("slept", 0, "discovery_delay"))
    /\ pc' = "publish"
    /\ UNCHANGED <<toolVars, callVars, args, idx, attempt, data, elapsed, readElapsed, conn,
                   future, visited, outcomes, mqttLoop>>

\* run: publish_device_event(data), one publish per field of the reading;
\* an exception is logged by handle_device_event_error
PublishDeviceEvent(failAt) ==
    /\ pc = "publish"
    /\ LET sent == trace \o Published("state", Fields, failAt) IN
       IF failAt = 0
       THEN /\ trace' = sent
            /\ pc' = "sweep"
       ELSE IF ExceptException("PublishError")
            THEN /\ trace' = Append(sent, Event("device_error", 0, "PublishError"))
                 /\ pc' = "sweep"
            ELSE /\ trace' = sent
                 /\ pc' = "crashed"
    /\ UNCHANGED <<toolVars, callVars, args, idx, attempt, data, elapsed, readElapsed, conn,
                   future, visited, outcomes, mqttLoop>>

Next ==
    \/ MqttInit
    \/ NextDevice
    \/ SweepEnd
    \/ IntervalSleepDone
    \/ StartAttempt
    \/ ConnectOk
    \/ ConnectFail
    \/ ConnectTimeout
    \/ SubscribeOk
    \/ SubscribeFail
    \/ WriteOk
    \/ WriteFail
    \/ \E decodable \in BOOLEAN : Notify(decodable)
    \/ ReadComplete
    \/ ReadTimeout
    \/ OverallTimeoutFires
    \/ Tick
    \/ SleepDone
    \/ LoopExit
    \/ \E failAt \in FailPoints(DiscoveryAttributes) : PublishDiscovery(failAt)
    \/ DiscoverySleepDone
    \/ \E failAt \in FailPoints(Fields) : PublishDeviceEvent(failAt)

Spec == Init /\ [][Next]_vars

\* the same program under the scheduling of the asyncio event loop: a
\* coroutine that can go on does go on (a sleep ends, a due timeout fires,
\* a transport call returns or is cut by its timeout)
LiveSpec == Spec /\ WF_vars(Next)

\* ------------------------------------------------- radoneye-dumper.py
\* the dumper process has no reader
ReaderNotStarted ==
    /\ args = [attempts |-> 0, connect_timeout |-> 1, read_timeout |-> 1,
               daemon |-> FALSE, mqtt |-> FALSE, discovery |-> FALSE,
               restart_bluetooth |-> FALSE]
    /\ pc = "none"
    /\ idx = 0
    /\ attempt = 0
    /\ data = NoData
    /\ elapsed = 0
    /\ readElapsed = 0
    /\ conn = "none"
    /\ future = "none"
    /\ trace = <<>>
    /\ visited = <<>>
    /\ outcomes = <<>>
    /\ mqttLoop = FALSE
    /\ gatt = <<>>
    /\ undecoded = FALSE
    /\ lateError = FALSE

\* --timeout, in seconds
DumpTimeouts == {1, 2}

\* what follows page_count and page_no in a history page: value_count and
\* the values.  One value announced and sent, none announced and one sent,
\* one announced and half a value sent, two announced and sent
HistoryBodies == {<<1, 37, 0>>, <<0, 37, 0>>, <<1, 37>>, <<2, 0, 1, 37, 0>>}

\* the history notifications the device may send: every page of MaxPages
\* with every body, a page that carries the wrong command, and the
\* payloads cut short inside the header
HistoryPayloads ==
    {<<COMMAND_HISTORY, page_count, page_no>> \o body :
        page_count \in 1..MaxPages, page_no \in 1..MaxPages,
        body \in HistoryBodies}
    \cup {<<COMMAND_CURRENT, 1, 1, 1, 37, 0>>, <<>>, <<COMMAND_HISTORY, 1, 1>>}

\* a current packet: 53 bytes, text "0" in the text fields, the four radon
\* values at Python offsets 33, 35, 37 and 51
CurrentPacket(latest, day_avg, month_avg, peak) ==
    [i \in 1..53 |->
        CASE i = 34 -> latest % 256       [] i = 35 -> latest \div 256
          [] i = 36 -> day_avg % 256      [] i = 37 -> day_avg \div 256
          [] i = 38 -> month_avg % 256    [] i = 39 -> month_avg \div 256
          [] i = 52 -> peak % 256         [] i = 53 -> peak \div 256
          [] OTHER -> 48]

\* the current notifications the device may send to the dumper
CurrentPayloads ==
    {CurrentPacket(37, 74, 111, 148), CurrentPacket(0, 1, 65535, 18),
     SubSeq(CurrentPacket(37, 74, 111, 148), 1, 20)}

\* dump: `self.history_done = False`
HistoryDoneAtStart_Kept == dumpNo >= 1 /\ dumper.history_done

\* dump: `self.history_done = False`
HistoryDoneAtStart == FALSE

DumperInit ==
    /\ ReaderNotStarted
    /\ ParserNotStarted
    /\ PublisherNotStarted
    /\ dumper \in {[timeout |-> t] : t \in DumpTimeouts}
    /\ dumpPc = "new"
    /\ dumpNo = 0
    /\ delivery = NoDelivery
    /\ pages = <<>>

\* dump(address) is called: the countdown and the flag are set, the client
\* connects, both notifications are subscribed and both commands written
Dump ==
    /\ dumpPc \in {"new", "closed"}
    /\ dumpNo < MaxDumps
    /\ dumper' = [timeout |-> dumper.timeout,
                  countdown |-> dumper.timeout,
                  history_done |-> HistoryDoneAtStart]
    /\ dumpPc' = "loop"
    /\ dumpNo' = dumpNo + 1
    /\ delivery' = NoDelivery
    /\ pages' = <<>>
    /\ UNCHANGED outsideDumper

\* dump(address) is called and the connection, a subscription or a write
\* raises: the exception leaves dump
DumpFails ==
    /\ dumpPc \in {"new", "closed"}
    /\ dumpNo < MaxDumps
    /\ dumper' = [timeout |-> dumper.timeout,
                  countdown |-> dumper.timeout,
                  history_done |-> HistoryDoneAtStart]
    /\ dumpPc' = "closed"
    /\ dumpNo' = dumpNo + 1
    /\ delivery' = NoDelivery
    /\ pages' = <<>>
    /\ UNCHANGED outsideDumper

\* history_callback(sender, data) during the sleep of the loop: the page is
\* decoded and printed; an exception of the decoder stays in the transport
HistoryCallback(payload) ==
    /\ dumpPc = "loop"
    /\ Len(pages) < MaxNotifications
    /\ LET call == decode_history_data(dumper, payload) IN
        /\ dumper' = call.self
        /\ delivery' = [kind |-> "history", payload |-> payload,
                        buffer |-> call.data, before |-> dumper,
                        after |-> call.self, printed |-> call.printed,
                        raised |-> call.raised, decoded |-> call.decoded]
        /\ pages' = IF call.raised = ""
                    THEN Append(pages, [page_count |-> payload[2],
                                        page_no |-> payload[3]])
                    ELSE pages
    /\ UNCHANGED <<outsideDumper, dumpPc, dumpNo>>

\* current_callback(sender, data) during the sleep of the loop: the packet
\* is decoded and printed
CurrentCallback(payload) ==
    /\ dumpPc = "loop"
    /\ LET reading == parse_sensor_data(payload) IN
        delivery' = [kind |-> "current", payload |-> payload,
                     buffer |-> payload, before |-> dumper,
                     after |-> dumper, printed |-> 0,
                     raised |-> reading.raised,
                     decoded |-> IF reading.raised = "" THEN <<reading>>
                                 ELSE <<>>]
    /\ UNCHANGED <<outsideDumper, dumper, dumpPc, dumpNo, pages>>

\* dump: one turn of `while not self.history_done and self.countdown > 0`
LoopStep ==
    /\ dumpPc = "loop"
    /\ ~dumper.history_done /\ dumper.countdown > 0
    /\ dumper' = [dumper EXCEPT !.countdown = @ - 1]
    /\ UNCHANGED <<outsideDumper, dumpPc, dumpNo, delivery, pages>>

\* dump: the loop condition is false, the async with block is left
DumpEnd ==
    /\ dumpPc = "loop"
    /\ ~(~dumper.history_done /\ dumper.countdown > 0)
    /\ dumpPc' = "closed"
    /\ UNCHANGED <<outsideDumper, dumper, dumpNo, delivery, pages>>

DumperNext ==
    \/ Dump
    \/ DumpFails
    \/ \E payload \in HistoryPayloads : HistoryCallback(payload)
    \/ \E payload \in CurrentPayloads : CurrentCallback(payload)
    \/ LoopStep
    \/ DumpEnd

DumperSpec == DumperInit /\ [][DumperNext]_vars

\* ------------------------------------------- RadonEyeParser on its own
\* the packets given to the parser: for every short v, a packet with
\* latest = v, day average = v + 1, month average = v + 2 (modulo 2^16) and
\* peak = MaxShort - v, so that each of the four values takes every short
ParserInit ==
    /\ ReaderNotStarted
    /\ DumperNotStarted
    /\ PublisherNotStarted
    /\ packet \in {CurrentPacket(v, (v + 1) % (MaxShort + 1),
                                  (v + 2) % (MaxShort + 1), MaxShort - v) :
                      v \in 0..MaxShort}
    /\ readings = <<>>

\* parse_sensor_data(packet) is called (again)
Parse ==
    /\ Len(readings) < MaxDecodes
    /\ readings' = Append(readings, parse_sensor_data(packet))
    /\ UNCHANGED <<outsideParser, packet>>

ParserNext == Parse

ParserSpec == ParserInit /\ [][ParserNext]_vars

\* ------------------------------------ publish_discovery_event on its own
\* DISCOVERY_ATTRIBUTES
DISCOVERY_ATTRIBUTES ==
    <<[id |-> "latest_pci_l", name |-> "Latest", unit |-> "pCi/L"],
      [id |-> "day_avg_pci_l", name |-> "DayAvg", unit |-> "pCi/L"],
      [id |-> "month_avg_pci_l", name |-> "MonthAvg", unit |-> "pCi/L"],
      [id |-> "peak_pci_l", name |-> "Peak", unit |-> "pCi/L"]>>

\* --expire-after: absent (None, the default) or an int
ExpireAfterValues == {<<>>} \cup {<<n>> : n \in 0..MaxExpireAfter}

\* `if self.args.expire_after`: neither None nor 0
ExpireAfterIsTrue_NotNone(expire_after) == expire_after # <<>>

\* `if self.args.expire_after`: neither None nor 0
ExpireAfterIsTrue(expire_after) == expire_after # <<>> /\ expire_after[1] # 0

\* a dict without items
EmptyDict == [key \in {} |-> ""]

\* device_topic: args.device_topic.format(**data, hostname=...), with the
\* default --device-topic
DeviceTopic(d) ==
    <<"radon_eye/", "hostname", "/devices/", d.vendor, "/", d.model, "/", d.serial>>

\* DISCOVERY_EVENT_TEMPLATE, copied, updated with force_update and
\* expire_after and substituted for the reading d and the attribute attr
\* (a text is the sequence of its parts)
DiscoveryEvent(d, attr) ==
    [name |-> <<d.vendor, " ", d.model, " ", d.serial, " ", attr.name>>,
     unit_of_measurement |-> attr.unit,
     value_template |-> "{{ value }}",
     state_class |-> "measurement",
     state_topic |-> DeviceTopic(d) \o <<"/", attr.id>>,
     unique_id |-> <<d.vendor, "-", d.model, "-", d.serial, "-", attr.name>>,
     icon |-> "mdi:radioactive",
     device |-> [identifiers |-> <<d.vendor, "-", d.model, "-", d.serial>>,
                 name |-> <<d.vendor, " ", d.model, " ", d.serial>>,
                 model |-> d.model,
                 manufacturer |-> d.vendor]]
    @@ (IF pubArgs.force_update THEN [force_update |-> "true"] ELSE EmptyDict)
    @@ (IF ExpireAfterIsTrue(pubArgs.expire_after)
        THEN [expire_after |-> pubArgs.expire_after[1]] ELSE EmptyDict)

\* the topic of the configuration message of attr
DiscoveryTopic(d, attr) ==
    <<"homeassistant/sensor", "/", d.vendor, "-", d.model, "-", d.serial,
      "/", d.vendor, "-", d.model, "-", d.serial, "-", attr.name, "/config">>

\* the readings given to publish_discovery_event: what decode_sensor_data
\* adds and the texts of the packet that the templates use
PublisherInit ==
    /\ ReaderNotStarted
    /\ DumperNotStarted
    /\ ParserNotStarted
    /\ pubArgs \in [force_update : BOOLEAN, expire_after : ExpireAfterValues]
    /\ pubData \in [vendor : {"Ecosense"}, device : {"RadonEye"},
                     address : 1..NumDevices,
                     model : {"RD200N", "RD200P"},
                     serial : {"RU22201030001", "RU22201030002"}]
    /\ pubPc = "loop"
    /\ messages = <<>>

\* publish_discovery_event: one turn of `for attr in DISCOVERY_ATTRIBUTES`
PublishConfig ==
    /\ pubPc = "loop"
    /\ Len(messages) < Len(DISCOVERY_ATTRIBUTES)
    /\ LET attr == DISCOVERY_ATTRIBUTES[Len(messages) + 1] IN
        messages' = Append(messages, [topic |-> DiscoveryTopic(pubData, attr),
                                      event |-> DiscoveryEvent(pubData, attr)])
    /\ UNCHANGED <<outsidePublisher, pubArgs, pubData, pubPc>>

\* publish_discovery_event: mqttc.publish raises, the loop is left
PublishConfigFails ==
    /\ pubPc = "loop"
    /\ Len(messages) < Len(DISCOVERY_ATTRIBUTES)
    /\ pubPc' = "raised"
    /\ UNCHANGED <<outsidePublisher, pubArgs, pubData, messages>>

\* publish_discovery_event: the loop is over
PublishConfigReturns ==
    /\ pubPc = "loop"
    /\ Len(messages) = Len(DISCOVERY_ATTRIBUTES)
    /\ pubPc' = "returned"
    /\ UNCHANGED <<outsidePublisher, pubArgs, pubData, messages>>

PublisherNext ==
    \/ PublishConfig
    \/ PublishConfigFails
    \/ PublishConfigReturns

PublisherSpec == PublisherInit /\ [][PublisherNext]_vars

\* ------------------------------------------------------------------- claims
\* run is done with the current device (its trace is complete)
DeviceDone == pc \in {"sweep", "interval_sleep", "done"} /\ idx >= 1

\* the trace holds a successful read at attempt k
OkAt(k) == \E i \in 1..Len(trace) : trace[i].ev = "ok" /\ trace[i].n = k

\* the positions of the trace holding event ev with string s
Positions(ev, s) == {i \in 1..Len(trace) : trace[i].ev = ev /\ trace[i].s = s}

\* C1: with --attempts N >= 1, a device whose every read attempt fails is
\* attempted exactly N times in the sweep, numbered 1..N, before run moves
\* on; no device is ever attempted more than N times.
C1_ExactlyMaxAttempts ==
    args.attempts >= 1 =>
        /\ Count(trace, "attempt") <= args.attempts
        /\ \A i \in 1..Len(trace) :
              trace[i].ev = "attempt" =>
                  trace[i].n = Cardinality({j \in 1..i : trace[j].ev = "attempt"})
        /\ (DeviceDone /\ Count(trace, "ok") = 0) =>
              Count(trace, "attempt") = args.attempts

C1_Witness ==
    /\ DeviceDone
    /\ args.attempts = MaxAttempts
    /\ Count(trace, "ok") = 0
    /\ Count(trace, "error") = MaxAttempts
    /\ Count(trace, "attempt") = MaxAttempts

\* C2 as claimed: in every sweep every configured address gets at least one
\* read attempt, in the configured order, whatever happened to the devices
\* before it, and the sweep is never aborted.
C2_EveryDeviceAttempted ==
    /\ pc # "crashed"
    /\ visited = SubSeq(Addresses, 1, Len(visited))
    /\ pc = "sweep" => Len(visited) = idx
    /\ pc \in {"interval_sleep", "done"} => visited = Addresses

\* C2 amended: the same, for --attempts >= 1 (with --attempts 0 or less the
\* while loop never runs and no device is attempted).
C2_EveryDeviceAttemptedIfAttempts ==
    args.attempts >= 1 => C2_EveryDeviceAttempted

C2_Witness ==
    /\ pc = "done"
    /\ args.attempts >= 1
    /\ outcomes[1] = "exhausted"
    /\ visited = Addresses

\* C3: a device that fails twice and succeeds at the third attempt (N >= 3)
\* gets exactly three attempts and two logged failures, its reading is
\* printed exactly once and each field is published at most once (all of
\* them, once, when MQTT is on and no publish fails); without --discovery no
\* discovery message is published.
C3_TwoFailuresThenSuccess ==
    (args.attempts >= 3 /\ OkAt(3)) =>
        /\ Count(trace, "error") = 2
        /\ Count(trace, "attempt") = 3
        /\ Count(trace, "ok") = 1
        /\ ~args.discovery => Count(trace, "discovery") = 0
        /\ \A f \in Range(Fields) : Cardinality(Positions("state", f)) <= 1
        /\ DeviceDone =>
              /\ Count(trace, "print") = 1
              /\ ~args.mqtt => Count(trace, "state") = 0
              /\ (args.mqtt /\ Count(trace, "device_error") = 0) =>
                    \A f \in Range(Fields) : Cardinality(Positions("state", f)) = 1

C3_Witness ==
    /\ DeviceDone
    /\ OkAt(3)
    /\ args.mqtt /\ ~args.discovery
    /\ Count(trace, "error") = 2
    /\ Count(trace, "state") = Len(Fields)

\* C4: after the k-th failed attempt of N: if k = N-1 < N and
\* --restart-bluetooth, the hook runs and the restart delay (not the
\* reconnect delay) is waited; if k < N otherwise, only the reconnect delay
\* is waited; if k = N, nothing follows. So the hook runs at most once per
\* device and sweep, right before the last attempt.
C4_RecoveryPolicy ==
    LET N == args.attempts
        Is(p, ev, s) == p <= Len(trace) /\ trace[p].ev = ev /\ trace[p].s = s
    IN
    /\ \A p \in 1..Len(trace) :
          trace[p].ev = "error" =>
              LET k == trace[p].n IN
              IF k < N /\ k = N - 1 /\ args.restart_bluetooth
              THEN /\ Is(p + 1, "hook", "")
                   /\ IF p + 2 <= Len(trace)
                      THEN Is(p + 2, "slept", "restart_bluetooth_delay")
                      ELSE pc = "sleep_restart"
              ELSE IF k < N
              THEN IF p + 1 <= Len(trace)
                   THEN Is(p + 1, "slept", "reconnect_delay")
                   ELSE pc = "sleep_reconnect"
              ELSE /\ k = N
                   /\ p = Len(trace)
                   /\ pc \notin {"sleep_restart", "sleep_reconnect"}
    /\ Count(trace, "hook") <= 1
    /\ \A p \in 1..Len(trace) :
          trace[p].ev = "hook" =>
              /\ trace[p].n = N - 1
              /\ p + 2 <= Len(trace) =>
                    (trace[p + 2].ev = "attempt" /\ trace[p + 2].n = N)

C4_Witness ==
    /\ args.attempts = 3
    /\ Cardinality(Positions("slept", "reconnect_delay")) = 1
    /\ Cardinality(Positions("slept", "restart_bluetooth_delay")) = 1
    /\ Count(trace, "hook") = 1
    /\ Count(trace, "error") = 3
    /\ DeviceDone

\* C5: the connection a read opened is released on every way out of the
\* read: no connection is open outside a read (at the next attempt, during
\* a delay, at the next device, during the interval sleep, at the end).
C5_ConnectionReleased ==
    pc \notin {"subscribing", "writing", "awaiting"} => conn # "open"

C5_Witness ==
    /\ pc = "sleep_reconnect"
    /\ conn = "closed"
    /\ future = "cancelled"
    /\ trace[Len(trace)].s = TimeoutError

\* C6: no read attempt is in progress for more than connect_timeout +
\* read_timeout ticks, in whichever state the reader is; at that point the
\* timeout of run's wait_for is due and ends the attempt as a failure.
C6_HardCeiling ==
    pc \in ReadStates =>
        /\ elapsed <= args.connect_timeout + args.read_timeout
        /\ elapsed = args.connect_timeout + args.read_timeout =>
              ENABLED OverallTimeoutFires

C6_Witness ==
    /\ pc = "writing"
    /\ args.connect_timeout = MaxTimeout
    /\ elapsed = args.connect_timeout + args.read_timeout

\* C7 as claimed: a read that is still connecting when connect_timeout has
\* elapsed fails at that point (the transport's connect is bounded by the
\* configured connect_timeout).
C7_ConnectBoundedByConnectTimeout ==
    pc = "connecting" => elapsed <= args.connect_timeout

\* C8 as claimed: publish_device_event publishes every field of the
\* reading once; a field whose publish fails is logged and the remaining
\* fields are still published.
C8_RemainingFieldsPublished ==
    (DeviceDone /\ data # NoData /\ args.mqtt) =>
        /\ \A f \in Range(Fields) : Cardinality(Positions("state", f)) <= 1
        /\ Count(trace, "state") + Count(trace, "device_error") >= Len(Fields)

\* the positions of the discovery messages, of the state messages and of
\* the discovery delay in the trace
DiscPos == {i \in 1..Len(trace) : trace[i].ev = "discovery"}
StatePos == {i \in 1..Len(trace) : trace[i].ev = "state"}
DelayPos == Positions("slept", "discovery_delay")

\* all discovery messages, then the discovery delay, then the state messages
DiscoveryDelayState ==
    /\ \A a \in Range(DiscoveryAttributes) :
          \E i \in DiscPos : trace[i].s = a /\ \A j \in StatePos : i < j
    /\ \E d \in DelayPos :
          (\A i \in DiscPos : i < d) /\ (\A j \in StatePos : d < j)

C10_ErrorsNeverStopTheSweep ==
    /\ pc # "crashed"
    /\ Len(outcomes) = IF pc \in {"interval_sleep", "done"} THEN Len(Addresses)
                       ELSE IF idx = 0 THEN 0 ELSE idx - 1
    /\ args.attempts >= 1 =>
          \A i \in 1..Len(outcomes) : outcomes[i] \in {"read", "exhausted"}
    /\ (DeviceDone /\ data # NoData /\ args.mqtt) =>
          Count(trace, "state") + Count(trace, "device_error") >= 1
    /\ pc = "sweep" => ENABLED (NextDevice \/ SweepEnd)
    /\ pc = "done" => ~args.daemon
    /\ pc = "interval_sleep" => (args.daemon /\ ENABLED IntervalSleepDone)

C10_Witness ==
    /\ pc = "interval_sleep"
    /\ outcomes[1] = "exhausted"
    /\ outcomes[Len(outcomes)] = "read"
    /\ Count(trace, "discovery_error") = 1
    /\ Count(trace, "state") = Len(Fields)

\* the error log: what handle_sensor_error, handle_discovery_event_error and
\* handle_device_event_error have printed for the current device
IsLogEntry(e) == e.ev \in {"error", "discovery_error", "device_error"}
ErrorLog == SelectSeq(trace, IsLogEntry)

\* C11: every failed attempt is logged with the device address, the attempt
\* number and the cause, and when a device has exhausted its attempts the
\* log holds exactly one more entry, of another kind than the per-attempt
\* entries, that records the exhaustion.
C11_FailuresAndExhaustionLogged ==
    DeviceDone =>
        /\ \A k \in 1..Count(trace, "attempt") :
              OkAt(k) \/ \E i \in 1..Len(trace) :
                            /\ trace[i].ev = "error"
                            /\ trace[i].a = Addresses[idx]
                            /\ trace[i].n = k
                            /\ trace[i].s \in {BleakError, TimeoutError}
        /\ Outcome = "exhausted" =>
              Cardinality({i \in 1..Len(ErrorLog) :
                              ErrorLog[i].ev # "error"}) = 1

\* the half of C11 that the code keeps: the per-attempt entries
C11_FailuresLogged ==
    DeviceDone =>
        \A k \in 1..Count(trace, "attempt") :
            OkAt(k) \/ \E i \in 1..Len(trace) :
                          /\ trace[i] = Event("error", k, trace[i].s)
                          /\ trace[i].s \in {BleakError, TimeoutError}

\* some read attempt on device d is under way
Attempting(d) == pc = "connecting" /\ idx = d

\* C12 as stated: without --daemon run makes one sweep over the device list
\* and terminates; with --daemon every sweep is followed by the interval
\* sleep and another sweep, every device is attempted again infinitely
\* often, and run never stops.
C12_OneSweepOrForever ==
    /\ ~args.daemon =>
          /\ <>[](pc = "done")
          /\ [](pc # "interval_sleep")
          /\ [](pc = "done" => Len(outcomes) = Len(Addresses))
    /\ args.daemon =>
          /\ [](pc # "done")
          /\ (pc = "interval_sleep") ~> (pc = "sweep" /\ idx = 0)
          /\ []<>(pc = "interval_sleep")
          /\ \A d \in 1..NumDevices : []<>Attempting(d)

\* C12, amended: the devices are attempted again infinitely often when
\* --attempts is at least 1 (with --attempts 0 the sweeps go on, but no
\* read is ever attempted).
C12_OneSweepOrForeverIfAttempts ==
    /\ ~args.daemon =>
          /\ <>[](pc = "done")
          /\ [](pc # "interval_sleep")
          /\ [](pc = "done" => Len(outcomes) = Len(Addresses))
    /\ args.daemon =>
          /\ [](pc # "done")
          /\ (pc = "interval_sleep") ~> (pc = "sweep" /\ idx = 0)
          /\ []<>(pc = "interval_sleep")
          /\ args.attempts >= 1 =>
                \A d \in 1..NumDevices : []<>Attempting(d)

\* a later sweep of a --daemon run is about to start: data still holds the
\* reading that the last device of the sweep before left
C12_Witness ==
    /\ args.daemon
    /\ pc = "sweep"
    /\ idx = 0
    /\ data # NoData

\* the entries of the trace that show a reading: the line on standard
\* output and the MQTT messages
Shown == {i \in 1..Len(trace) : trace[i].ev \in {"print", "discovery", "state"}}

\* C13: in each sweep one line is printed for a device if and only if a
\* read of that device succeeded in that sweep, with or without MQTT and
\* whether or not publishing fails; whatever is printed or published is the
\* reading of the current device, obtained earlier in the same sweep (never
\* one kept from another device or an earlier sweep).
C13_PrintedIffReadInThisSweep ==
    /\ DeviceDone =>
          Count(trace, "print") = IF Count(trace, "ok") >= 1 THEN 1 ELSE 0
    /\ \A i \in Shown :
          /\ trace[i].a = Addresses[idx]
          /\ \E j \in 1..(i - 1) :
                trace[j].ev = "ok" /\ trace[j].a = trace[i].a

\* the second device of a sweep exhausted its attempts after the first was
\* read and published: nothing is printed or published for it
C13_Witness ==
    /\ DeviceDone
    /\ idx = 2
    /\ args.mqtt
    /\ outcomes = <<"read">>
    /\ Outcome = "exhausted"
    /\ Shown = {}

\* C14: the codec is stateless and free of side effects: after a current
\* packet or a history page was decoded, the buffer that was handed to the
\* decoder is as it was delivered, the decoder object is as it was before
\* the call, nothing was printed by the decoder, and decoding the same
\* buffer once more gives the same result.
C14_DecodingHasNoEffect ==
    delivery.kind # "none" =>
        /\ delivery.buffer = delivery.payload
        /\ delivery.after = delivery.before
        /\ delivery.printed = 0
        /\ IF delivery.kind = "history"
           THEN decode_history_data(delivery.after, delivery.buffer).decoded
                    = delivery.decoded
           ELSE parse_sensor_data(delivery.buffer).raised = delivery.raised

\* C15: within one dump, history_done is true exactly when a history page
\* with page_no = page_count was decoded in this dump: false from the start
\* of every dump until such a page, true in every state after it.
C15_HistoryDoneIffLastPageDecoded ==
    dumpPc \in {"loop", "closed"} =>
        (dumper.history_done
            <=> \E i \in 1..Len(pages) : pages[i].page_no = pages[i].page_count)

\* in the second dump of a dumper the last page was decoded and then
\* another page that is not the last
C15_Witness ==
    /\ dumpNo = 2
    /\ dumpPc = "loop"
    /\ dumper.history_done
    /\ Len(pages) = 2
    /\ pages[1].page_no = pages[1].page_count
    /\ pages[2].page_no # pages[2].page_count

\* hundredths is the integer nearest to 100 * bq_m3 / 37, and not by a tie
Nearest(hundredths, bq_m3) ==
    LET diff == 37 * hundredths - 100 * bq_m3 IN
    2 * (IF diff < 0 THEN -diff ELSE diff) < 37

\* C16: for every short and each of latest, day average, month average and
\* peak, the decoded pCi/L value, in hundredths, is the integer nearest to
\* 100 * bq_m3 / 37, never by a tie, where bq_m3 is the little-endian short
\* at the field's offset; decoding the same bytes again gives the same.
C16_PciIsNearestHundredth ==
    \A i \in 1..Len(readings) :
        LET r == readings[i] IN
        /\ r.raised = ""
        /\ r.latest_bq_m3 = packet[34] + 256 * packet[35]
        /\ r.day_avg_bq_m3 = (r.latest_bq_m3 + 1) % (MaxShort + 1)
        /\ r.month_avg_bq_m3 = (r.latest_bq_m3 + 2) % (MaxShort + 1)
        /\ r.peak_bq_m3 = MaxShort - r.latest_bq_m3
        /\ Nearest(r.latest_pci_l, r.latest_bq_m3)
        /\ Nearest(r.day_avg_pci_l, r.day_avg_bq_m3)
        /\ Nearest(r.month_avg_pci_l, r.month_avg_bq_m3)
        /\ Nearest(r.peak_pci_l, r.peak_bq_m3)
        /\ r = readings[1]

\* the packet with latest = 65535 Bq/m3 (1771.22 pCi/L) and peak = 0 was
\* decoded twice
C16_Witness ==
    /\ Len(readings) = 2
    /\ readings[2].latest_bq_m3 = MaxShort
    /\ readings[2].latest_pci_l = 177122
    /\ readings[2].peak_pci_l = 0

\* what C17 says of the configuration messages, but for expire_after: when
\* publish_discovery_event has returned there is one message per monitored
\* attribute, in order; every message has the unique_id
\* vendor-model-serial-attribute and holds force_update exactly when
\* --force-update is given
ConfigMessages ==
    /\ pubPc = "returned" => Len(messages) = Len(DiscoveryAttributes)
    /\ \A i \in 1..Len(messages) :
          /\ messages[i].event.unique_id =
                <<pubData.vendor, "-", pubData.model, "-", pubData.serial,
                  "-", DiscoveryAttributes[i]>>
          /\ "force_update" \in DOMAIN messages[i].event <=> pubArgs.force_update

\* C17 as stated: ... and every message holds expire_after exactly when
\* --expire-after is given.
C17_OneConfigPerAttribute ==
    /\ ConfigMessages
    /\ \A i \in 1..Len(messages) :
          "expire_after" \in DOMAIN messages[i].event
              <=> pubArgs.expire_after # <<>>

\* C17, amended: ... and every message holds expire_after exactly when
\* --expire-after is given and is not 0.
C17_OneConfigPerAttributeNonZero ==
    /\ ConfigMessages
    /\ \A i \in 1..Len(messages) :
          "expire_after" \in DOMAIN messages[i].event
              <=> (pubArgs.expire_after # <<>> /\ pubArgs.expire_after # <<0>>)

\* publish_discovery_event has returned with --force-update and
\* --expire-after 0: four messages, with force_update and without
\* expire_after
C17_Witness ==
    /\ pubPc = "returned"
    /\ pubArgs.force_update
    /\ pubArgs.expire_after = <<0>>
    /\ Len(messages) = 4
    /\ "force_update" \in DOMAIN messages[4].event
    /\ "expire_after" \notin DOMAIN messages[4].event

\* C18: within one read the subscription completes before the command is
\* written: write_gatt_char has returned only on a connection on which
\* start_notify returned before it, the write is only in progress once the
\* subscription is made, and when start_notify has not returned (it raised,
\* or the read was cut) the command is not written.
C18_SubscribedBeforeWrite ==
    /\ \A i \in 1..Len(gatt) :
          gatt[i] = "write_gatt_char" =>
              \E j \in 1..(i - 1) : gatt[j] = "start_notify"
    /\ pc \in {"writing", "awaiting"} => "start_notify" \in Range(gatt)
    /\ pc = "awaiting" <=> "write_gatt_char" \in Range(gatt)
    /\ "start_notify" \notin Range(gatt) => "write_gatt_char" \notin Range(gatt)

\* the command was written on the subscribed connection and the reading is
\* awaited, in a second attempt (the first one failed)
C18_Witness ==
    /\ pc = "awaiting"
    /\ gatt = <<"start_notify", "write_gatt_char">>
    /\ conn = "open"
    /\ attempt = 2

\* C19: a notification that arrives once the wait of the read is resolved
\* is ignored: the callback raises no error on it.
C19_LateNotificationIgnored == ~lateError

\* the half of C19 that the code keeps: a resolved future stays resolved
\* as long as the read goes on, whatever is delivered after
C19_ResultStays ==
    [][(future = "done" /\ pc \in ReadStates /\ pc' \in ReadStates)
            => future' = "done"]_vars

\* C20: a notification that cannot be decoded is fatal for the attempt: the
\* attempt gives no reading (its future is never resolved), it ends as a
\* failed attempt that is logged, and it is retried if attempts remain.
C20_UndecodableFailsTheAttempt ==
    undecoded => future # "done"

\* the position of the first successful read in the trace (0: none)
FirstOk ==
    IF \E i \in 1..Len(trace) : trace[i].ev = "ok"
    THEN CHOOSE i \in 1..Len(trace) :
            /\ trace[i].ev = "ok"
            /\ \A j \in 1..(i - 1) : trace[j].ev # "ok"
    ELSE 0

\* C21: once a read of a device has succeeded in a sweep, nothing more is
\* done to read it in that sweep: no attempt, no failure, no delay of
\* handle_sensor_error and no bluetooth restart follows the success; and
\* when run is done with the device, the number of attempts made equals the
\* number of the first successful attempt, or --attempts if none succeeded.
C21_NothingAfterSuccess ==
    /\ FirstOk # 0 =>
          \A i \in (FirstOk + 1)..Len(trace) :
              /\ trace[i].ev \notin {"attempt", "ok", "error", "hook"}
              /\ trace[i].ev = "slept" => trace[i].s = "discovery_delay"
    /\ DeviceDone =>
          Count(trace, "attempt") =
              IF FirstOk # 0 THEN trace[FirstOk].n ELSE args.attempts

\* with --attempts 3 and --restart-bluetooth the second attempt succeeded:
\* two attempts were made, the restart that precedes a last attempt was not
\* run, and the reading was published after the success
C21_Witness ==
    /\ DeviceDone
    /\ args.attempts = 3
    /\ args.restart_bluetooth
    /\ OkAt(2)
    /\ Count(trace, "attempt") = 2
    /\ Count(trace, "hook") = 0
    /\ Count(trace, "state") = Len(Fields)

\* the positions of the trace where handle_discovery_event_error logged
DiscErrPos == Positions("discovery_error", "PublishError")

\* C22: with --mqtt and --discovery, when publishing the discovery messages
\* of a reading raises, the failure is logged for the device, the discovery
\* delay is not waited, and publish_device_event is still run for the same
\* reading after it: once run is done with the device, the state messages
\* (all of them, unless a publish of theirs raises in turn and is logged)
\* follow the logged failure.
C22_StatePublishedAfterDiscoveryFailure ==
    \A e \in DiscErrPos :
        /\ args.mqtt /\ args.discovery
        /\ trace[e].a = Addresses[idx]
        /\ DiscErrPos = {e}
        /\ DelayPos = {}
        /\ pc \in {"publish", "sweep", "interval_sleep", "done"}
        /\ \A i \in DiscPos : i < e
        /\ \A j \in StatePos : j > e /\ trace[j].a = data.address
        /\ DeviceDone =>
              \/ Cardinality(StatePos) = Len(Fields)
              \/ /\ Count(trace, "device_error") = 1
                 /\ trace[Len(trace)].ev = "device_error"

\* the second discovery publish of a reading raised: one discovery message,
\* the logged failure, no delay, then every state message of the reading
C22_Witness ==
    /\ DeviceDone
    /\ Cardinality(DiscPos) = 1
    /\ DiscErrPos # {}
    /\ DelayPos = {}
    /\ Cardinality(StatePos) = Len(Fields)
    /\ Count(trace, "device_error") = 0

====
